---- MODULE Spec2Model ----
(***************************************************************************)
(* Work-order (OT) lifecycle, checklist-template resolution and            *)
(* cycle-threshold alert synchronisation of the asset-maintenance          *)
(* application (activos/, horometro/, core/).                              *)
(*                                                                         *)
(* The database tables are the variables.  Every action is one request     *)
(* handler (or service call) together with the model methods, signal       *)
(* receivers and on-commit callbacks it runs.                              *)
(***************************************************************************)
EXTENDS FiniteSets, Integers, Sequences, TLC

VARIABLES
    ot,          \* the RegistroMantenimiento row
    detalles,    \* DetalleMantenimiento rows of the OT, in id order
    historial,   \* HistorialOT rows of the OT, in creation order
    lecturas,    \* LecturaHorometro table: <<activo, anio, semana>> -> row
    alertas,     \* AlertaMantenimiento table: <<activo, anio, semana>> -> row
    plantillas,  \* PlantillaChecklist table (set of rows)
    clock,       \* timezone.now()
    last,        \* the last call: operation, arguments and outcome
    ots,         \* RegistroMantenimiento rows created by services, in id order
    items,       \* PlantillaItem rows: template id -> its items in id order
    novedades,   \* Novedad table: id -> row
    ubicaciones, \* Ubicacion table: id -> row
    taxonomia,   \* Sistema / Subsistema / ItemMantenible / Parte tables
    peticiones   \* requests in flight: request -> the OT instance it loaded

\* the tables outside the work order, its readings, alerts and templates
otras == <<ots, items, novedades, ubicaciones, taxonomia, peticiones>>

vars == <<ot, detalles, historial, lecturas, alertas, plantillas, clock, last, otras>>

-----------------------------------------------------------------------------
(* Bounds of the model *)

MaxClock == 2          \* timestamps 1..MaxClock
MaxTareas == 2         \* rows of the TareaMantenimiento (master task) table
MaxChecklist == 250    \* checklist sizes of the completeness model
MaxSemana == 1         \* ISO weeks 1..MaxSemana of the readings
MaxFilas == 1          \* data rows of an imported Excel file
MaxPlantillas == 2     \* rows of the template table
MaxOTs == 2            \* OTs created by services
MaxRecursion == 6      \* nested calls the interpreter allows before RecursionError
MaxFilasTax == 2       \* data rows of a taxonomy file
MaxVeces == 2          \* times the same taxonomy file is imported
MaxHistorial == 4      \* history rows after which the admin form saves no more

-----------------------------------------------------------------------------
(* Values *)

None == -999999        \* SQL NULL / Python None of a numeric or date field
NullUser == "null"     \* NULL of a user foreign key
NullRef == "null"      \* NULL of any other foreign key

PEN == "PEN"
PRO == "PRO"
REV == "REV"
CER == "CER"
EstadoOT == {PEN, PRO, REV, CER}

PRE == "PRE"
COR == "COR"
TipoOT == {PRE, COR}

ESTADOS == {"NUEVA", "EN_PROCESO", "CERRADA"}

ALERTA_UMBRAL == 70000

Users == {"u1"}
Unsaved == "unsaved"   \* a user object without pk (AnonymousUser)
Tareas == 1..MaxTareas
Activos == {"A1", "A2"}
Familias == {"F1"}
Fallas == {"F01"}
Versions == {1, 2}

\* Activo.familia of the assets: A1 belongs to a family, A2 to none
FamiliaDe == [a \in Activos |-> IF a = "A1" THEN "F1" ELSE NullRef]
Anio == 2024
Semanas == 1..MaxSemana
\* the last modelled week of the previous year and the weeks of this year
Periodos == {<<Anio - 1, MaxSemana>>} \cup ({Anio} \X Semanas)

\* Python truthiness of a nullable number
Truthy(x) == x # None /\ x # 0

\* Python's `a or b or c`
Or3(a, b, c) == IF Truthy(a) THEN a ELSE IF Truthy(b) THEN b ELSE c

-----------------------------------------------------------------------------
(* horometro/services/alerts.py *)

\* (anio, semana) of p is later than (anio, semana) of q
Later(p, q) == p[1] > q[1] \/ (p[1] = q[1] /\ p[2] > q[2])

\* the keys of table T that belong to activo a
KeysOf(T, a) == {k \in DOMAIN T : k[1] = a}

\* order_by("anio", "semana").last() over a non-empty set of keys
LastKey(K) == CHOOSE k \in K : \A j \in K : ~Later(<<j[2], j[3]>>, <<k[2], k[3]>>)

_ywk_key(y, w) == y * 100 + w

_delta_prev(lh) ==
    IF lh.ciclos_desde_ultimo_preventivo # None
    THEN lh.ciclos_desde_ultimo_preventivo
    ELSE LET base == IF lh.lectura # None THEN lh.lectura ELSE lh.ciclos_oracle
         IN  IF base # None /\ lh.ciclo_ultimo_preventivo # None
             THEN base - lh.ciclo_ultimo_preventivo
             ELSE None

_has_later_reading_nunca(L, lh) == FALSE

_has_later_reading(L, lh) ==
    \E k \in KeysOf(L, lh.activo) :
        k[2] > lh.anio \/ (k[2] = lh.anio /\ k[3] > lh.semana)

SyncResult(created, updated, closed_previous, closed_existing, skipped, reason) ==
    [created |-> created, updated |-> updated,
     closed_previous |-> closed_previous, closed_existing |-> closed_existing,
     skipped |-> skipped, reason |-> reason]

Skipped(reason) == SyncResult(FALSE, FALSE, FALSE, FALSE, TRUE, reason)

\* AlertaMantenimiento.abierta
abierta(alerta) == alerta.estado \in {"NUEVA", "EN_PROCESO"}

\* the open alert (NUEVA / EN_PROCESO) of the latest week of the activo, as a
\* set of keys: empty when there is none
OpenAlertKey(A, a) ==
    LET open == {k \in KeysOf(A, a) : A[k].estado \in {"NUEVA", "EN_PROCESO"}}
    IN  IF open = {} THEN {} ELSE {LastKey(open)}

CloseAlert_sin_fecha(A, k, now) ==
    [A EXCEPT ![k] = [@ EXCEPT !.estado = "CERRADA"]]

\* open_alert.estado = "CERRADA"; cerrado_en = now; save(update_fields=...)
CloseAlert(A, k, now) ==
    [A EXCEPT ![k] = [@ EXCEPT !.estado = "CERRADA", !.cerrado_en = now]]

sync_alert_for_reading_reabre(A, L, lh, umbral, only_latest, now) ==
    LET dprev == _delta_prev(lh)
        open == OpenAlertKey(A, lh.activo)
        this == <<lh.activo, lh.anio, lh.semana>>
        this_key == _ywk_key(lh.anio, lh.semana)
        open_key == IF open = {} THEN -1
                    ELSE LET o == CHOOSE k \in open : TRUE IN _ywk_key(o[2], o[3])
    IN  IF only_latest /\ _has_later_reading(L, lh)
        THEN [alertas |-> A, sr |-> Skipped("no_es_ultima_semana")]
        ELSE IF dprev = None
        THEN [alertas |-> A, sr |-> Skipped("sin_delta")]
        ELSE IF dprev < 0
        THEN [alertas |-> A, sr |-> Skipped("delta_negativo")]
        ELSE IF dprev >= umbral
        THEN LET closes == open # {} /\ open_key < this_key
                 A1 == IF closes
                       THEN CloseAlert(A, CHOOSE k \in open : TRUE, now)
                       ELSE A
                 created == this \notin DOMAIN A1
                 nueva == [estado |-> "NUEVA", valor_ciclos |-> dprev,
                           umbral |-> umbral, cerrado_en |-> None]
             IN  [alertas |-> IF created THEN (this :> nueva) @@ A1
                              ELSE [A1 EXCEPT ![this] = nueva],
                  sr |-> SyncResult(created, ~created, closes, FALSE, FALSE, "")]
        ELSE IF open # {} /\ this_key >= open_key
        THEN [alertas |-> CloseAlert(A, CHOOSE k \in open : TRUE, now),
              sr |-> SyncResult(FALSE, FALSE, FALSE, TRUE, FALSE, "")]
        ELSE [alertas |-> A, sr |-> Skipped("debajo_umbral")]

\* sync_alert_for_reading(lh, umbral, only_latest=...) on alert table A and
\* reading table L: the new alert table and the SyncResult
sync_alert_for_reading(A, L, lh, umbral, only_latest, now) ==
    LET dprev == _delta_prev(lh)
        open == OpenAlertKey(A, lh.activo)
        this == <<lh.activo, lh.anio, lh.semana>>
        this_key == _ywk_key(lh.anio, lh.semana)
        open_key == IF open = {} THEN -1
                    ELSE LET o == CHOOSE k \in open : TRUE IN _ywk_key(o[2], o[3])
    IN  IF only_latest /\ _has_later_reading(L, lh)
        THEN [alertas |-> A, sr |-> Skipped("no_es_ultima_semana")]
        ELSE IF dprev = None
        THEN [alertas |-> A, sr |-> Skipped("sin_delta")]
        ELSE IF dprev < 0
        THEN [alertas |-> A, sr |-> Skipped("delta_negativo")]
        ELSE IF dprev >= umbral
        THEN LET closes == open # {} /\ open_key < this_key
                 A1 == IF closes
                       THEN CloseAlert(A, CHOOSE k \in open : TRUE, now)
                       ELSE A
                 created == this \notin DOMAIN A1
                 A2 == IF created
                       THEN (this :> [estado |-> "NUEVA", valor_ciclos |-> dprev,
                                      umbral |-> umbral, cerrado_en |-> None]) @@ A1
                       ELSE [A1 EXCEPT ![this] =
                                [@ EXCEPT !.valor_ciclos = dprev, !.umbral = umbral]]
             IN  [alertas |-> A2,
                  sr |-> SyncResult(created, ~created, closes, FALSE, FALSE, "")]
        ELSE IF open # {} /\ this_key >= open_key
        THEN [alertas |-> CloseAlert(A, CHOOSE k \in open : TRUE, now),
              sr |-> SyncResult(FALSE, FALSE, FALSE, TRUE, FALSE, "")]
        ELSE [alertas |-> A, sr |-> Skipped("debajo_umbral")]

\* transaction.on_commit callbacks of lecturahorometro_post_save, run in
\* registration order once the transaction commits: each is
\* sync_alert_for_reading(instance) on the instance the row handler saved
RECURSIVE RunOnCommit(_, _, _, _)
RunOnCommit(A, L, queue, now) ==
    IF queue = <<>> THEN A
    ELSE RunOnCommit(
            sync_alert_for_reading(A, L, Head(queue), ALERTA_UMBRAL, TRUE, now).alertas,
            L, Tail(queue), now)

-----------------------------------------------------------------------------
(* activos/models.py: RegistroMantenimiento *)

\* Python's round() of the float n / d for 0 <= n, 0 < d: round half to even.
\* n / d is exact to far below 1 / (2 d) for the sizes modelled, so the float
\* is a tie exactly when the quotient is.
PyRound(n, d) ==
    LET q == n \div d
        r == n % d
    IN  IF 2 * r < d THEN q
        ELSE IF 2 * r > d THEN q + 1
        ELSE IF q % 2 = 0 THEN q ELSE q + 1

Hechos(D) == Cardinality({i \in 1..Len(D) : D[i].completado})

porcentaje_avance(D) ==
    IF Len(D) = 0 THEN 0 ELSE PyRound(100 * Hechos(D), Len(D))

can_transition_to_skip(estado, nuevo) ==
    estado # CER /\ nuevo # estado

can_transition_to(estado, nuevo) ==
    \/ estado = PEN /\ nuevo = PRO
    \/ estado = PRO /\ nuevo = REV
    \/ estado = REV /\ nuevo = CER

Asignada_siempre(inst) == TRUE

\* `self.asignado_a` is truthy
Asignada(inst) == inst.asignado_a # NullUser

\* The tables a save of an OT can touch
World(o, h, L, A) == [ot |-> o, historial |-> h, lecturas |-> L, alertas |-> A]

Ret(W, inst) == [W |-> W, inst |-> inst]

RECURSIVE SaveOT(_, _, _, _, _)
RECURSIVE _post_ot_changes(_, _, _, _, _)

\* The baseline step of _post_ot_changes for a closed preventive OT: fix the
\* baseline on the reading of the execution week (else the latest one) and
\* reset its delta; the save of the reading fires lecturahorometro_post_save,
\* whose on-commit callback synchronises the alert of that reading.
\* hoy is the ISO (year, week) of instance.fecha_cierre.
Baseline(W, inst, now, hoy) ==
    LET L == W.lecturas
        yw == IF Truthy(inst.anio_ejecucion) /\ Truthy(inst.semana_ejecucion)
              THEN <<inst.anio_ejecucion, inst.semana_ejecucion>>
              ELSE hoy
        wk == <<inst.activo, yw[1], yw[2]>>
        K == KeysOf(L, inst.activo)
    IN  IF wk \notin DOMAIN L /\ K = {} THEN Ret(W, inst)
        ELSE LET k == IF wk \in DOMAIN L THEN wk ELSE LastKey(K)
                 lectura == Or3(inst.lectura_ejecucion, L[k].lectura, L[k].ciclos_oracle)
                 lh == [L[k] EXCEPT !.ciclo_ultimo_preventivo = lectura,
                                    !.ciclos_desde_ultimo_preventivo = 0]
                 L1 == [L EXCEPT ![k] = lh]
             IN  IF lectura = None THEN Ret(W, inst)
                 ELSE Ret([W EXCEPT !.lecturas = L1,
                                    !.alertas = RunOnCommit(W.alertas, L1, <<lh>>, now)],
                          inst)

_post_ot_changes_sin_comparar(W, inst, old, now, hoy) ==
    LET new == inst.estado
        W1 == [W EXCEPT !.historial =
                  Append(@, [estado_anterior |-> old, estado_nuevo |-> new])]
    IN  IF new = PRO /\ inst.fecha_inicio_ejecucion = None
        THEN SaveOT(W1, [inst EXCEPT !.fecha_inicio_ejecucion = now],
                    {"fecha_inicio_ejecucion"}, now, hoy)
        ELSE IF new = REV /\ inst.fecha_fin_ejecucion = None
        THEN SaveOT(W1, [inst EXCEPT !.fecha_fin_ejecucion = now],
                    {"fecha_fin_ejecucion"}, now, hoy)
        ELSE IF new = CER /\ inst.fecha_cierre = None
        THEN SaveOT(W1, [inst EXCEPT !.fecha_cierre = now],
                    {"fecha_cierre"}, now, hoy)
        ELSE Ret(W1, inst)

_post_ot_changes_sin_guardar(W, inst, old, now, hoy) ==
    LET new == inst.estado
        W1 == [W EXCEPT !.historial =
                  Append(@, [estado_anterior |-> old, estado_nuevo |-> new])]
        i1 == [inst EXCEPT
                 !.fecha_inicio_ejecucion = IF new = PRO /\ @ = None THEN now ELSE @,
                 !.fecha_fin_ejecucion = IF new = REV /\ @ = None THEN now ELSE @,
                 !.fecha_cierre = IF new = CER /\ @ = None THEN now ELSE @]
    IN  IF old = new THEN Ret(W, inst) ELSE Ret(W1, i1)

\* post_save receiver of RegistroMantenimiento (created = False); old is the
\* estado cached by the pre_save receiver
_post_ot_changes(W, inst, old, now, hoy) ==
    LET new == inst.estado
        W1 == [W EXCEPT !.historial =
                  Append(@, [estado_anterior |-> old, estado_nuevo |-> new])]
        s1 == IF new = PRO /\ inst.fecha_inicio_ejecucion = None
              THEN SaveOT(W1, [inst EXCEPT !.fecha_inicio_ejecucion = now],
                          {"fecha_inicio_ejecucion"}, now, hoy)
              ELSE Ret(W1, inst)
        s2 == IF new = REV /\ s1.inst.fecha_fin_ejecucion = None
              THEN SaveOT(s1.W, [s1.inst EXCEPT !.fecha_fin_ejecucion = now],
                          {"fecha_fin_ejecucion"}, now, hoy)
              ELSE s1
        s3 == IF s2.inst.fecha_cierre = None
              THEN SaveOT(s2.W, [s2.inst EXCEPT !.fecha_cierre = now],
                          {"fecha_cierre"}, now, hoy)
              ELSE s2
    IN  IF old = new THEN Ret(W, inst)
        ELSE IF new # CER THEN s2
        ELSE IF s3.inst.tipo # PRE THEN s3   \* _recalcular_alertas_safe: no service, no effect
        ELSE Baseline(s3.W, s3.inst, now, hoy)

\* instance.save(update_fields=fields): the pre_save receiver reads the stored
\* estado, the listed fields are written, the post_save receiver runs
SaveOT(W, inst, fields, now, hoy) ==
    LET old == W.ot.estado
        row == [f \in DOMAIN W.ot |-> IF f \in fields THEN inst[f] ELSE W.ot[f]]
    IN  _post_ot_changes([W EXCEPT !.ot = row], inst, old, now, hoy)

Outcome(s, raised) == [W |-> s.W, inst |-> s.inst, raised |-> raised]

cerrar_sin_usuario(W, inst, usuario, now, hoy) ==
    LET i1 == [inst EXCEPT
                 !.fecha_inicio_ejecucion = IF @ = None THEN now ELSE @,
                 !.fecha_fin_ejecucion = IF @ = None THEN now ELSE @,
                 !.fecha_cierre = now,
                 !.estado = CER]
    IN  SaveOT(W, i1, {"estado", "fecha_inicio_ejecucion", "fecha_fin_ejecucion",
                       "fecha_cierre", "completado_por"}, now, hoy)

cerrar(W, inst, usuario, now, hoy) ==
    LET i1 == [inst EXCEPT
                 !.fecha_inicio_ejecucion = IF @ = None THEN now ELSE @,
                 !.fecha_fin_ejecucion = IF @ = None THEN now ELSE @,
                 !.fecha_cierre = now,
                 !.completado_por = IF usuario \in Users THEN usuario ELSE @,
                 !.estado = CER]
    IN  SaveOT(W, i1, {"estado", "fecha_inicio_ejecucion", "fecha_fin_ejecucion",
                       "fecha_cierre", "completado_por"}, now, hoy)

\* transition_to(nuevo, usuario) on instance inst whose checklist is D;
\* raised: the call raised ValueError
transition_to(W, inst, D, nuevo, usuario, now, hoy) ==
    IF nuevo = inst.estado THEN Outcome(Ret(W, inst), FALSE)
    ELSE IF ~can_transition_to(inst.estado, nuevo) THEN Outcome(Ret(W, inst), TRUE)
    ELSE IF nuevo = PRO /\ ~Asignada(inst) THEN Outcome(Ret(W, inst), TRUE)
    ELSE IF nuevo = REV /\ porcentaje_avance(D) < 100 THEN Outcome(Ret(W, inst), TRUE)
    ELSE IF nuevo = CER THEN Outcome(cerrar(W, inst, usuario, now, hoy), FALSE)
    ELSE LET i1 == [inst EXCEPT
                      !.fecha_inicio_ejecucion =
                          IF nuevo = PRO /\ @ = None THEN now ELSE @,
                      !.fecha_fin_ejecucion =
                          IF nuevo = REV /\ @ = None THEN now ELSE @,
                      !.estado = nuevo]
         IN  Outcome(SaveOT(W, i1, {"estado", "fecha_inicio_ejecucion",
                                    "fecha_fin_ejecucion"}, now, hoy), FALSE)

-----------------------------------------------------------------------------
(* Rows *)

\* RegistroMantenimiento.objects.create(activo=, tipo=, estado=PEN, asignado_a=)
NewOT(activo, tipo, asignado_a) ==
    [activo |-> activo, estado |-> PEN, tipo |-> tipo,
     asignado_a |-> asignado_a, completado_por |-> NullUser,
     fecha_inicio_ejecucion |-> None, fecha_fin_ejecucion |-> None,
     fecha_cierre |-> None,
     anio_ejecucion |-> None, semana_ejecucion |-> None,
     lectura_ejecucion |-> None, plantilla_aplicada |-> NullRef]

\* DetalleMantenimiento(registro=ot, tarea=t) with the field defaults
NewDetalle(t) ==
    [tarea |-> t, completado |-> FALSE, obligatorio |-> FALSE,
     requiere_evidencia |-> FALSE, orden |-> 0]

\* the HistorialOT row the post_save receiver writes when created = True
CreacionHistorial(estado) == <<[estado_anterior |-> "", estado_nuevo |-> estado]>>

EmptyTable == <<>>

\* no service-created OT, template item, novedad, ubicacion or taxonomy row
OtrasVacias ==
    /\ ots = <<>>
    /\ items = EmptyTable
    /\ novedades = EmptyTable
    /\ ubicaciones = EmptyTable
    /\ taxonomia = EmptyTable
    /\ peticiones = EmptyTable

-----------------------------------------------------------------------------
(* Request handlers on the OT *)

Commit(W) ==
    /\ ot' = W.ot
    /\ historial' = W.historial
    /\ lecturas' = W.lecturas
    /\ alertas' = W.alertas

\* cambiar_estado_ot / cerrar_ot / the admin bulk transitions: load the OT and
\* call transition_to(nuevo, usuario); a ValueError becomes an error message
CambiarEstadoOT(nuevo, usuario, hoy) ==
    LET r == transition_to(World(ot, historial, lecturas, alertas), ot, detalles,
                           nuevo, usuario, clock, hoy)
    IN  /\ Commit(r.W)
        /\ last' = [op |-> "transition_to", nuevo |-> nuevo, usuario |-> usuario,
                    raised |-> r.raised]
        /\ UNCHANGED <<detalles, plantillas, clock, otras>>

\* asignar_ot: ot.asignado_a = operario; save(update_fields=["asignado_a"])
AsignarOT(operario, hoy) ==
    LET r == SaveOT(World(ot, historial, lecturas, alertas),
                    [ot EXCEPT !.asignado_a = operario], {"asignado_a"}, clock, hoy)
    IN  /\ Commit(r.W)
        /\ last' = [op |-> "asignar_ot", operario |-> operario]
        /\ UNCHANGED <<detalles, plantillas, clock, otras>>

\* admin action_generar_checklist_base: one item per master task that the
\* checklist does not have yet
RECURSIVE AppendNuevos(_, _)
AppendNuevos(D, T) ==
    IF T = {} THEN D
    ELSE LET t == CHOOSE x \in T : \A y \in T : x <= y
         IN  AppendNuevos(Append(D, NewDetalle(t)), T \ {t})

GenerarChecklistBase ==
    LET existentes == {detalles[i].tarea : i \in 1..Len(detalles)}
    IN  /\ detalles' = AppendNuevos(detalles, Tareas \ existentes)
        /\ last' = [op |-> "generar_checklist_base"]
        /\ UNCHANGED <<ot, historial, lecturas, alertas, plantillas, clock, otras>>

\* checklist_mantenimiento, "guardar_checklist": every item's completado is
\* set from the posted checkboxes
GuardarChecklist(marcas) ==
    /\ Len(detalles) > 0
    /\ detalles' = [i \in 1..Len(detalles) |->
                       [detalles[i] EXCEPT !.completado = marcas[i]]]
    /\ last' = [op |-> "guardar_checklist"]
    /\ UNCHANGED <<ot, historial, lecturas, alertas, plantillas, clock, otras>>

\* time passes
Tick ==
    /\ clock < MaxClock
    /\ clock' = clock + 1
    /\ last' = [op |-> "tick"]
    /\ UNCHANGED <<ot, detalles, historial, lecturas, alertas, plantillas, otras>>

UsuarioArg == Users \cup {NullUser, Unsaved}

\* the admin change form of RegistroMantenimientoAdmin: the posted estado is
\* set on the loaded OT and obj.save() writes every field
GuardarOTAdmin(estado, hoy) ==
    /\ Len(historial) < MaxHistorial
    /\ LET r == SaveOT(World(ot, historial, lecturas, alertas),
                       [ot EXCEPT !.estado = estado], DOMAIN ot, clock, hoy)
       IN  Commit(r.W)
    /\ last' = [op |-> "guardar_ot", estado |-> estado]
    /\ UNCHANGED <<detalles, plantillas, clock, otras>>

-----------------------------------------------------------------------------
(* The work-order lifecycle *)

InitOT ==
    /\ \E tipo \in TipoOT, asignado_a \in Users \cup {NullUser} :
          ot = NewOT("A1", tipo, asignado_a)
    /\ detalles = <<>>
    /\ historial = CreacionHistorial(PEN)
    /\ lecturas = EmptyTable
    /\ alertas = EmptyTable
    /\ plantillas = {}
    /\ clock = 1
    /\ last = [op |-> "create"]
    /\ OtrasVacias

NextOT ==
    \/ \E nuevo \in EstadoOT, usuario \in UsuarioArg, hoy \in Periodos :
          CambiarEstadoOT(nuevo, usuario, hoy)
    \/ \E operario \in Users, hoy \in Periodos : AsignarOT(operario, hoy)
    \/ GenerarChecklistBase
    \/ \E marcas \in [1..Len(detalles) -> BOOLEAN] : GuardarChecklist(marcas)
    \/ Tick

SpecOT == InitOT /\ [][NextOT]_vars

\* the lifecycle with the admin forms: an OT added in any estado, and the
\* change form next to the request handlers
InitHist ==
    /\ \E estado \in EstadoOT, asignado_a \in Users \cup {NullUser} :
          /\ ot = [NewOT("A1", COR, asignado_a) EXCEPT !.estado = estado]
          /\ historial = CreacionHistorial(estado)
    /\ detalles = <<>>
    /\ lecturas = EmptyTable
    /\ alertas = EmptyTable
    /\ plantillas = {}
    /\ clock = 1
    /\ last = [op |-> "create"]
    /\ OtrasVacias

NextHist ==
    \/ NextOT
    \/ \E estado \in EstadoOT, hoy \in Periodos : GuardarOTAdmin(estado, hoy)

SpecHist == InitHist /\ [][NextHist]_vars

-----------------------------------------------------------------------------
(* Checklist completeness: an OT in progress with a checklist of any size *)

\* n items, the first h of them completed
Checklist(n, h) == [i \in 1..n |-> [NewDetalle(1) EXCEPT !.completado = (i <= h)]]

InitChk ==
    /\ ot = [NewOT("A1", PRE, "u1") EXCEPT !.estado = PRO,
                                            !.fecha_inicio_ejecucion = 1]
    /\ \E n \in 0..MaxChecklist : \E h \in 0..n : detalles = Checklist(n, h)
    /\ historial = Append(CreacionHistorial(PEN),
                          [estado_anterior |-> PEN, estado_nuevo |-> PRO])
    /\ lecturas = EmptyTable
    /\ alertas = EmptyTable
    /\ plantillas = {}
    /\ clock = 1
    /\ last = [op |-> "transition_to", nuevo |-> PRO, usuario |-> "u1", raised |-> FALSE]
    /\ OtrasVacias

NextChk ==
    \E nuevo \in {PRO, REV}, usuario \in Users, hoy \in {<<Anio, 1>>} :
        CambiarEstadoOT(nuevo, usuario, hoy)

SpecChk == InitChk /\ [][NextChk]_vars

-----------------------------------------------------------------------------
(* Requests that overlap: cambiar_estado_ot / cerrar_ot *)

\* the requests that can be in flight at the same time
Peticiones == {"r1", "r2"}

\* ot = get_object_or_404(RegistroMantenimiento, pk=pk): request r reads the
\* row into its own instance
CargarOT(r) ==
    /\ r \notin DOMAIN peticiones
    /\ Len(historial) < MaxHistorial
    /\ peticiones' = (r :> ot) @@ peticiones
    /\ last' = [op |-> "cargar_ot", peticion |-> r]
    /\ UNCHANGED <<ot, detalles, historial, lecturas, alertas, plantillas, clock,
                   ots, items, novedades, ubicaciones, taxonomia>>

\* the rest of the view: transition_to(nuevo, usuario) on the instance the
\* request loaded, against the rows stored by now; the request ends
TransicionarCargada(r, nuevo, usuario, hoy) ==
    /\ r \in DOMAIN peticiones
    /\ LET t == transition_to(World(ot, historial, lecturas, alertas), peticiones[r],
                              detalles, nuevo, usuario, clock, hoy)
       IN  /\ Commit(t.W)
           /\ last' = [op |-> "transition_to", nuevo |-> nuevo, usuario |-> usuario,
                       raised |-> t.raised, peticion |-> r,
                       cargada |-> peticiones[r].estado]
    /\ peticiones' = [q \in DOMAIN peticiones \ {r} |-> peticiones[q]]
    /\ UNCHANGED <<detalles, plantillas, clock,
                   ots, items, novedades, ubicaciones, taxonomia>>

InitConc ==
    /\ ot = NewOT("A1", COR, "u1")
    /\ detalles = Checklist(1, 1)
    /\ historial = CreacionHistorial(PEN)
    /\ lecturas = EmptyTable
    /\ alertas = EmptyTable
    /\ plantillas = {}
    /\ clock = 1
    /\ last = [op |-> "create"]
    /\ OtrasVacias

NextConc ==
    \/ \E r \in Peticiones : CargarOT(r)
    \/ \E r \in Peticiones, nuevo \in EstadoOT, hoy \in Periodos :
          TransicionarCargada(r, nuevo, "u1", hoy)
    \/ Tick

SpecConc == InitConc /\ [][NextConc]_vars

-----------------------------------------------------------------------------
(* activos/models.py: PlantillaChecklistManager *)

\* the rows a PlantillaChecklist table can hold, with falla drawn from F
PlantillaRows(F) ==
    [tipo : TipoOT, activo : Activos \cup {NullRef}, familia : Familias \cup {NullRef},
     es_global : BOOLEAN, falla : F, version : Versions, vigente : BOOLEAN]

\* order_by("-version").first(): a row of highest version (the database
\* breaks ties); the empty set stands for None
FirstByVersion(S) == {p \in S : \A q \in S : q.version <= p.version}

\* the rows get_best_template_for(activo=, tipo=, falla=) can return on
\* table P; the empty set stands for None
get_best_template_for_global_first(P, activo, tipo, falla) ==
    LET qs == {p \in P : p.vigente /\ p.tipo = tipo}
        by_falla == FirstByVersion({p \in qs : p.falla = falla})
        by_activo == FirstByVersion({p \in qs : p.activo = activo})
        by_familia == FirstByVersion({p \in qs : p.familia = FamiliaDe[activo]})
        by_global == FirstByVersion({p \in qs : p.es_global})
    IN  IF falla # NullRef /\ by_falla # {} THEN by_falla
        ELSE IF by_activo # {} THEN by_activo
        ELSE IF by_global # {} THEN by_global
        ELSE IF FamiliaDe[activo] # NullRef THEN by_familia
        ELSE {}

get_best_template_for(P, activo, tipo, falla) ==
    LET qs == {p \in P : p.vigente /\ p.tipo = tipo}
        by_falla == FirstByVersion({p \in qs : p.falla = falla})
        by_activo == FirstByVersion({p \in qs : p.activo = activo})
        by_familia == FirstByVersion({p \in qs : p.familia = FamiliaDe[activo]})
        by_global == FirstByVersion({p \in qs : p.es_global})
    IN  IF falla # NullRef /\ by_falla # {} THEN by_falla
        ELSE IF by_activo # {} THEN by_activo
        ELSE IF FamiliaDe[activo] # NullRef /\ by_familia # {} THEN by_familia
        ELSE by_global

NoPlantilla == [tipo |-> "", activo |-> NullRef, familia |-> NullRef,
                es_global |-> FALSE, falla |-> NullRef, version |-> 0,
                vigente |-> FALSE]

\* a PlantillaChecklist row is created (admin, or "guardar como plantilla")
CrearPlantilla(p) ==
    /\ Cardinality(plantillas) < MaxPlantillas
    /\ p \notin plantillas
    /\ plantillas' = plantillas \cup {p}
    /\ last' = [op |-> "crear_plantilla"]
    /\ UNCHANGED <<ot, detalles, historial, lecturas, alertas, clock, otras>>

\* a call PlantillaChecklist.objects.get_best_template_for(...)
GetBestTemplate(activo, tipo, falla) ==
    LET rs == get_best_template_for(plantillas, activo, tipo, falla)
    IN  /\ \E r \in (IF rs = {} THEN {NoPlantilla} ELSE rs) :
              last' = [op |-> "get_best_template_for", activo |-> activo,
                       tipo |-> tipo, falla |-> falla, found |-> rs # {},
                       result |-> r]
        /\ UNCHANGED <<ot, detalles, historial, lecturas, alertas, plantillas, clock, otras>>

InitTpl ==
    /\ ot = NewOT("A1", PRE, NullUser)
    /\ detalles = <<>>
    /\ historial = CreacionHistorial(PEN)
    /\ lecturas = EmptyTable
    /\ alertas = EmptyTable
    /\ plantillas = {}
    /\ clock = 1
    /\ last = [op |-> "create"]
    /\ OtrasVacias

\* templates without a failure code, looked up without a failure code
NextTpl ==
    \/ \E p \in PlantillaRows({NullRef}) : CrearPlantilla(p)
    \/ \E activo \in Activos, tipo \in TipoOT : GetBestTemplate(activo, tipo, NullRef)

SpecTpl == InitTpl /\ [][NextTpl]_vars

\* vigente preventive templates that carry a failure code, looked up with
\* and without a failure code
PlantillasConFalla ==
    {p \in PlantillaRows(Fallas) : p.vigente /\ p.tipo = PRE}

NextFalla ==
    \/ \E p \in PlantillasConFalla : CrearPlantilla(p)
    \/ \E activo \in Activos, falla \in Fallas \cup {NullRef} :
          GetBestTemplate(activo, PRE, falla)

SpecFalla == InitTpl /\ [][NextFalla]_vars

-----------------------------------------------------------------------------
(* Claims on the work-order lifecycle *)

Forward == {<<PEN, PRO>>, <<PRO, REV>>, <<REV, CER>>}

\* the step is a call transition_to(nuevo) on the OT
TransitionStep(nuevo) == last'.op = "transition_to" /\ last'.nuevo = nuevo

\* C1: a transition_to(n) with n other than the OT's estado s changes the
\* stored estado only when (s, n) is PEN->PRO, PRO->REV or REV->CER, and then
\* to n; any other request raises ValueError and leaves estado as it was, so
\* CER is never left.
C1_ForwardOnly ==
    [][\A n \in EstadoOT :
          TransitionStep(n) /\ n # ot.estado =>
             /\ <<ot.estado, n>> \notin Forward =>
                   last'.raised /\ ot'.estado = ot.estado
             /\ ot'.estado # ot.estado =>
                   <<ot.estado, n>> \in Forward /\ ot'.estado = n]_vars

\* a closed OT has refused a request to go back to an earlier state
C1_Witness ==
    /\ last.op = "transition_to"
    /\ last.raised
    /\ last.nuevo \in {PEN, PRO, REV}
    /\ ot.estado = CER

AllDone(D) == Len(D) >= 1 /\ \A i \in 1..Len(D) : D[i].completado

\* C2: transition_to(REV) on an OT in PRO whose checklist is empty or has an
\* item that is not completado raises ValueError and leaves the OT in PRO
\* with fecha_fin_ejecucion unchanged, for every checklist size up to 250.
C2_RevNeedsCompleteChecklist ==
    [][TransitionStep(REV) /\ ot.estado = PRO /\ ~AllDone(detalles) =>
          /\ last'.raised
          /\ ot'.estado = PRO
          /\ ot'.fecha_fin_ejecucion = ot.fecha_fin_ejecucion]_vars

\* C3: transition_to(PRO) on an OT in PEN without asignado_a raises ValueError,
\* leaving estado, fecha_inicio_ejecucion and the history as they were; with
\* asignado_a set the OT moves to PRO and an unset fecha_inicio_ejecucion is
\* set.
C3_ProNeedsAssignment ==
    [][TransitionStep(PRO) /\ ot.estado = PEN =>
          IF ot.asignado_a = NullUser
          THEN /\ last'.raised
               /\ ot'.estado = PEN
               /\ ot'.fecha_inicio_ejecucion = ot.fecha_inicio_ejecucion
               /\ historial' = historial
          ELSE /\ ~last'.raised
               /\ ot'.estado = PRO
               /\ ot.fecha_inicio_ejecucion = None =>
                     ot'.fecha_inicio_ejecucion = clock]_vars

\* an unassigned OT in PEN has refused the move to PRO
C3_Witness ==
    /\ last.op = "transition_to"
    /\ last.nuevo = PRO
    /\ last.raised
    /\ ot.estado = PEN
    /\ ot.asignado_a = NullUser
    /\ ot.fecha_inicio_ejecucion = None
    /\ Len(historial) = 1

\* C4: a transition_to(CER, usuario=u) that succeeds on an OT in REV leaves it
\* in CER with fecha_cierre, fecha_fin_ejecucion and fecha_inicio_ejecucion
\* set, and with completado_por = u when u is a saved user.
C4_CloseStamps ==
    [][TransitionStep(CER) /\ ot.estado = REV /\ ~last'.raised =>
          /\ ot'.estado = CER
          /\ ot'.fecha_cierre # None
          /\ ot'.fecha_fin_ejecucion # None
          /\ ot'.fecha_inicio_ejecucion # None
          /\ last'.usuario \in Users => ot'.completado_por = last'.usuario]_vars

\* an OT has been closed by a saved user
C4_Witness ==
    /\ last.op = "transition_to"
    /\ last.nuevo = CER
    /\ ~last.raised
    /\ last.usuario \in Users
    /\ ot.estado = CER
    /\ ot.completado_por = last.usuario
    /\ Len(historial) = 4

-----------------------------------------------------------------------------
(* horometro/services/importer.py: importar_excel, narrow format *)

\* the (ULTIMO PREVENTIVO, CICLOS DESDE EL ULTIMO PREVENTIVO) cells of a row:
\* no baseline at all, a baseline of 0 without delta, and deltas below 0,
\* just below the threshold and at the threshold
CeldasPreventivo ==
    {<<None, None>>, <<0, None>>, <<None, -1>>,
     <<None, ALERTA_UMBRAL - 1>>, <<None, ALERTA_UMBRAL>>}

\* the LECTURA cell of a row that has one
LecturaCelda == ALERTA_UMBRAL + 10000

\* the data rows of a sheet: a row of an unknown asset, a row without
\* reading, and the rows of asset A1 for every week and preventive cells
FilasExcel ==
    {[codigo |-> "ZZ", anio |-> Anio, semana |-> 1, lectura |-> LecturaCelda,
      ciclo_up |-> None, delta_prev |-> None],
     [codigo |-> "A1", anio |-> Anio, semana |-> 1, lectura |-> None,
      ciclo_up |-> None, delta_prev |-> None]}
    \cup {[codigo |-> "A1", anio |-> p[1], semana |-> p[2], lectura |-> LecturaCelda,
           ciclo_up |-> c[1], delta_prev |-> c[2]] :
             p \in Periodos, c \in CeldasPreventivo}

\* Activo.objects.filter(codigo__iexact=codigo).first()
ActivoPorCodigo(codigo) == IF codigo \in Activos THEN codigo ELSE NullRef

ImportResult == [creados |-> 0, actualizados |-> 0, errores |-> 0]

ImportarFila_guarda_siempre(st, fila, dry_run, generar_alertas, now) ==
    LET activo == ActivoPorCodigo(fila.codigo)
        k == <<activo, fila.anio, fila.semana>>
        created == k \notin DOMAIN st.L
        con_archivo == ~created /\ st.L[k].fuente_archivo
        \* update_or_create, then the fuente_archivo save on the same object
        obj == [activo |-> activo, anio |-> fila.anio, semana |-> fila.semana,
                lectura |-> fila.lectura, ciclos_oracle |-> None,
                ciclo_ultimo_preventivo |-> fila.ciclo_up,
                ciclos_desde_ultimo_preventivo |-> fila.delta_prev,
                fuente_archivo |-> TRUE]
        L1 == (k :> obj) @@ st.L
        saves == IF con_archivo THEN <<obj>> ELSE <<obj, obj>>
        A1 == IF generar_alertas
              THEN sync_alert_for_reading(st.A, L1, obj, ALERTA_UMBRAL, TRUE, now).alertas
              ELSE st.A
    IN  IF fila.lectura = None THEN st
        ELSE IF activo = NullRef
        THEN [st EXCEPT !.res.errores = @ + 1]
        ELSE [L |-> L1, A |-> A1, queue |-> st.queue \o saves,
              touched |-> st.touched \cup {activo},
              res |-> [st.res EXCEPT !.creados = @ + (IF created THEN 1 ELSE 0),
                                     !.actualizados = @ + (IF created THEN 0 ELSE 1)]]

\* one iteration of the row loop of _do_narrow.  st carries the tables, the
\* on-commit queue (the instances the post_save receiver was fired with), the
\* touched assets and the ImportResult
ImportarFila(st, fila, dry_run, generar_alertas, now) ==
    LET activo == ActivoPorCodigo(fila.codigo)
        k == <<activo, fila.anio, fila.semana>>
        created == k \notin DOMAIN st.L
        con_archivo == ~created /\ st.L[k].fuente_archivo
        \* update_or_create, then the fuente_archivo save on the same object
        obj == [activo |-> activo, anio |-> fila.anio, semana |-> fila.semana,
                lectura |-> fila.lectura, ciclos_oracle |-> None,
                ciclo_ultimo_preventivo |-> fila.ciclo_up,
                ciclos_desde_ultimo_preventivo |-> fila.delta_prev,
                fuente_archivo |-> TRUE]
        L1 == (k :> obj) @@ st.L
        saves == IF con_archivo THEN <<obj>> ELSE <<obj, obj>>
        A1 == IF generar_alertas
              THEN sync_alert_for_reading(st.A, L1, obj, ALERTA_UMBRAL, TRUE, now).alertas
              ELSE st.A
    IN  IF fila.lectura = None THEN st
        ELSE IF activo = NullRef
        THEN [st EXCEPT !.res.errores = @ + 1]
        ELSE IF dry_run THEN st
        ELSE [L |-> L1, A |-> A1, queue |-> st.queue \o saves,
              touched |-> st.touched \cup {activo},
              res |-> [st.res EXCEPT !.creados = @ + (IF created THEN 1 ELSE 0),
                                     !.actualizados = @ + (IF created THEN 0 ELSE 1)]]

RECURSIVE ImportarFilas(_, _, _, _, _)
ImportarFilas(st, filas, dry_run, generar_alertas, now) ==
    IF filas = <<>> THEN st
    ELSE ImportarFilas(ImportarFila(st, Head(filas), dry_run, generar_alertas, now),
                       Tail(filas), dry_run, generar_alertas, now)

\* the closing loop of _do_narrow: synchronise the latest reading of every
\* touched asset
RECURSIVE SyncTouched(_, _, _, _)
SyncTouched(A, L, touched, now) ==
    IF touched = {} THEN A
    ELSE LET aid == CHOOSE a \in touched : TRUE
             latest == L[LastKey(KeysOf(L, aid))]
         IN  SyncTouched(
                sync_alert_for_reading(A, L, latest, ALERTA_UMBRAL, TRUE, now).alertas,
                L, touched \ {aid}, now)

\* importar_excel(archivo, dry_run=, generar_alertas=) on tables L and A: the
\* row loop, the closing synchronisation, and the on-commit callbacks that
\* run when the atomic block of _do_narrow commits
importar_excel(L, A, filas, dry_run, generar_alertas, now) ==
    LET st0 == [L |-> L, A |-> A, queue |-> <<>>, touched |-> {}, res |-> ImportResult]
        st == ImportarFilas(st0, filas, dry_run, generar_alertas, now)
        A1 == IF ~dry_run /\ generar_alertas /\ st.touched # {}
              THEN SyncTouched(st.A, st.L, st.touched, now)
              ELSE st.A
    IN  [lecturas |-> st.L,
         alertas |-> RunOnCommit(A1, st.L, st.queue, now),
         resumen |-> st.res]

-----------------------------------------------------------------------------
(* Request handlers and service calls on readings and alerts *)

\* subir_excel / the service called directly
ImportarExcel(filas, dry_run, generar_alertas) ==
    LET r == importar_excel(lecturas, alertas, filas, dry_run, generar_alertas, clock)
    IN  /\ lecturas' = r.lecturas
        /\ alertas' = r.alertas
        /\ last' = [op |-> "importar_excel", filas |-> filas, dry_run |-> dry_run,
                    generar_alertas |-> generar_alertas]
        /\ UNCHANGED <<ot, detalles, historial, plantillas, clock, otras>>

\* a call sync_alert_for_reading(lh) on the stored reading of key k
SyncLectura(k) ==
    LET r == sync_alert_for_reading(alertas, lecturas, lecturas[k], ALERTA_UMBRAL,
                                    TRUE, clock)
    IN  /\ alertas' = r.alertas
        /\ last' = [op |-> "sync_alert_for_reading", key |-> k, sr |-> r.sr]
        /\ UNCHANGED <<ot, detalles, historial, lecturas, plantillas, clock, otras>>

\* cambiar_estado_alerta: the posted estado is written; cerrado_en is stamped
\* when it is CERRADA and left alone otherwise
CambiarEstadoAlerta(k, nueva) ==
    /\ k \in DOMAIN alertas
    /\ alertas' = [alertas EXCEPT ![k] =
                      [@ EXCEPT !.estado = nueva,
                                !.cerrado_en = IF nueva = "CERRADA" THEN clock ELSE @]]
    /\ last' = [op |-> "cambiar_estado_alerta", key |-> k, nueva |-> nueva]
    /\ UNCHANGED <<ot, detalles, historial, lecturas, plantillas, clock, otras>>

-----------------------------------------------------------------------------
(* Readings and alerts of asset A1 *)

\* an OT of asset A1 that has gone PEN -> PRO -> REV at time 1
OTEnRevision(tipo, ejecucion) ==
    [NewOT("A1", tipo, "u1") EXCEPT
        !.estado = REV, !.fecha_inicio_ejecucion = 1, !.fecha_fin_ejecucion = 1,
        !.anio_ejecucion = ejecucion[1], !.semana_ejecucion = ejecucion[2]]

HistorialEnRevision ==
    CreacionHistorial(PEN) \o <<[estado_anterior |-> PEN, estado_nuevo |-> PRO],
                                [estado_anterior |-> PRO, estado_nuevo |-> REV]>>

InitAlert ==
    /\ ot = OTEnRevision(COR, <<None, None>>)
    /\ detalles = Checklist(1, 1)
    /\ historial = HistorialEnRevision
    /\ lecturas = EmptyTable
    /\ alertas = EmptyTable
    /\ plantillas = {}
    /\ clock = 1
    /\ last = [op |-> "transition_to", nuevo |-> REV, usuario |-> "u1", raised |-> FALSE]
    /\ OtrasVacias

NextAlert ==
    \/ \E n \in 1..MaxFilas : \E filas \in [1..n -> FilasExcel] :
          \E dry_run \in BOOLEAN, generar_alertas \in BOOLEAN :
              ImportarExcel(filas, dry_run, generar_alertas)
    \/ \E k \in DOMAIN lecturas : SyncLectura(k)
    \/ \E k \in DOMAIN alertas, nueva \in ESTADOS : CambiarEstadoAlerta(k, nueva)

SpecAlert == InitAlert /\ [][NextAlert]_vars

-----------------------------------------------------------------------------
(* The closure of an OT in review of an asset with readings and alerts *)

InitCierre ==
    /\ \E tipo \in TipoOT, ejecucion \in {<<None, None>>, <<Anio, 1>>} :
          ot = OTEnRevision(tipo, ejecucion)
    /\ detalles = Checklist(1, 1)
    /\ historial = HistorialEnRevision
    /\ lecturas = EmptyTable
    /\ alertas = EmptyTable
    /\ plantillas = {}
    /\ clock = 1
    /\ last = [op |-> "transition_to", nuevo |-> REV, usuario |-> "u1", raised |-> FALSE]
    /\ OtrasVacias

NextCierre ==
    \/ \E fila \in FilasExcel : ImportarExcel(<<fila>>, FALSE, TRUE)
    \/ \E k \in DOMAIN alertas : CambiarEstadoAlerta(k, "EN_PROCESO")
    \/ \E usuario \in Users, hoy \in Periodos : CambiarEstadoOT(CER, usuario, hoy)

SpecCierre == InitCierre /\ [][NextCierre]_vars

\* closing an OT over readings that include a counter at zero and a reading
\* of another asset; the OT may carry its own lectura_ejecucion
LecturaOT == ALERTA_UMBRAL + 500

FilasBase ==
    {[codigo |-> "A2", anio |-> Anio, semana |-> 1, lectura |-> LecturaCelda,
      ciclo_up |-> None, delta_prev |-> ALERTA_UMBRAL]}
    \cup {[codigo |-> "A1", anio |-> p[1], semana |-> p[2], lectura |-> l,
           ciclo_up |-> None, delta_prev |-> d] :
             p \in Periodos, l \in {0, LecturaCelda}, d \in {None, ALERTA_UMBRAL}}

InitBase ==
    /\ \E tipo \in TipoOT, ejecucion \in {<<None, None>>, <<Anio, 1>>},
          lectura_ejecucion \in {None, LecturaOT} :
          ot = [OTEnRevision(tipo, ejecucion) EXCEPT !.lectura_ejecucion = lectura_ejecucion]
    /\ detalles = Checklist(1, 1)
    /\ historial = HistorialEnRevision
    /\ lecturas = EmptyTable
    /\ alertas = EmptyTable
    /\ plantillas = {}
    /\ clock = 1
    /\ last = [op |-> "transition_to", nuevo |-> REV, usuario |-> "u1", raised |-> FALSE]
    /\ OtrasVacias

NextBase ==
    \/ \E fila \in FilasBase : ImportarExcel(<<fila>>, FALSE, FALSE)
    \/ \E usuario \in Users, hoy \in Periodos : CambiarEstadoOT(CER, usuario, hoy)

SpecBase == InitBase /\ [][NextBase]_vars

-----------------------------------------------------------------------------
(* activos/views.py: OTs created from alerts *)

\* an entry of ots: the row, its HistorialOT rows and its checklist
OTCreada(row) == [row |-> row, historial |-> CreacionHistorial(row.estado), detalles |-> <<>>]

\* _apply_best_template_or_fallback(ot): PlantillaChecklist has no attribute
\* mejor_coincidencia, so the lookup raises AttributeError before the
\* checklist is read or written
_apply_best_template_or_fallback(o, D) == [raised |-> TRUE, ot |-> o, detalles |-> D]

\* crear_ot_desde_alerta: create a preventive OT for the asset of the alert,
\* give it a checklist, then mark the alert EN_PROCESO unless it is CERRADA.
\* Whether the created OT survives the exception depends on ATOMIC_REQUESTS,
\* which the settings module decides.
CrearOTDesdeAlerta(k) ==
    LET nueva == OTCreada(NewOT(k[1], PRE, NullUser))
        r == _apply_best_template_or_fallback(nueva.row, nueva.detalles)
        hecha == [nueva EXCEPT !.row = r.ot, !.detalles = r.detalles]
    IN  /\ k \in DOMAIN alertas
        /\ Len(ots) < MaxOTs
        /\ \E atomic_requests \in BOOLEAN :
              ots' = IF r.raised /\ atomic_requests THEN ots ELSE Append(ots, hecha)
        /\ alertas' = IF ~r.raised /\ alertas[k].estado # "CERRADA"
                      THEN [alertas EXCEPT ![k] = [@ EXCEPT !.estado = "EN_PROCESO"]]
                      ELSE alertas
        /\ last' = [op |-> "crear_ot_desde_alerta", key |-> k, raised |-> r.raised]
        /\ UNCHANGED <<ot, detalles, historial, lecturas, plantillas, clock,
                       items, novedades, ubicaciones, taxonomia, peticiones>>

\* readings imported with alerts, direct syncs, manual alert changes and
\* OTs created from alerts
NextAbierta ==
    \/ \E fila \in FilasExcel : ImportarExcel(<<fila>>, FALSE, TRUE)
    \/ \E k \in DOMAIN lecturas : SyncLectura(k)
    \/ \E k \in DOMAIN alertas, nueva \in ESTADOS : CambiarEstadoAlerta(k, nueva)
    \/ \E k \in DOMAIN alertas : CrearOTDesdeAlerta(k)

SpecAbierta == InitAlert /\ [][NextAbierta]_vars

-----------------------------------------------------------------------------
(* activos/models.py and views.py: checklists from templates *)

\* PlantillaItem(plantilla=, tarea=, obligatorio=, requiere_evidencia=, orden=)
NewPlantillaItem(tarea, obligatorio, requiere_evidencia, orden) ==
    [tarea |-> tarea, obligatorio |-> obligatorio,
     requiere_evidencia |-> requiere_evidencia, orden |-> orden]

\* plantilla.items.all(): Meta.ordering = ["orden", "id"]; its is in id order
RECURSIVE OrdenarItems(_)
OrdenarItems(its) ==
    IF its = <<>> THEN <<>>
    ELSE LET i == CHOOSE a \in 1..Len(its) :
                     \A b \in 1..Len(its) :
                         \/ its[a].orden < its[b].orden
                         \/ its[a].orden = its[b].orden /\ a <= b
             resto == [j \in 1..(Len(its) - 1) |-> IF j < i THEN its[j] ELSE its[j + 1]]
         IN  <<its[i]>> \o OrdenarItems(resto)

\* the DetalleMantenimiento rows aplicar_plantilla builds from the items
DetallesDe(its) ==
    [i \in 1..Len(its) |->
        [tarea |-> its[i].tarea, completado |-> FALSE,
         obligatorio |-> its[i].obligatorio,
         requiere_evidencia |-> its[i].requiere_evidencia,
         orden |-> its[i].orden]]

aplicar_plantilla_sin_borrar(W, inst, D, pl, its, now, hoy) ==
    LET s == SaveOT(W, [inst EXCEPT !.plantilla_aplicada = pl],
                    {"plantilla_aplicada"}, now, hoy)
    IN  [W |-> s.W, inst |-> s.inst, detalles |-> D \o DetallesDe(OrdenarItems(its))]

\* ot.aplicar_plantilla(plantilla): the checklist D is deleted, one row per
\* item of the template is created and plantilla_aplicada is saved
aplicar_plantilla(W, inst, D, pl, its, now, hoy) ==
    LET s == SaveOT(W, [inst EXCEPT !.plantilla_aplicada = pl],
                    {"plantilla_aplicada"}, now, hoy)
    IN  [W |-> s.W, inst |-> s.inst, detalles |-> DetallesDe(OrdenarItems(its))]

\* _ensure_checklist_exists(ot)
_ensure_checklist_exists(o, D) ==
    IF Len(D) = 0 THEN _apply_best_template_or_fallback(o, D)
    ELSE [raised |-> FALSE, ot |-> o, detalles |-> D]

PlantillaIds == {"PL1"}

\* a PlantillaItem is added to a template (unique_together plantilla, tarea)
AgregarItem(pl, tarea, obligatorio, requiere_evidencia, orden) ==
    /\ \A i \in 1..Len(items[pl]) : items[pl][i].tarea # tarea
    /\ items' = [items EXCEPT ![pl] =
                    Append(@, NewPlantillaItem(tarea, obligatorio, requiere_evidencia, orden))]
    /\ last' = [op |-> "agregar_item"]
    /\ UNCHANGED <<ot, detalles, historial, lecturas, alertas, plantillas, clock,
                   ots, novedades, ubicaciones, taxonomia, peticiones>>

\* checklist_mantenimiento, GET: the view first ensures a checklist
VerChecklist ==
    LET e == _ensure_checklist_exists(ot, detalles)
    IN  /\ ot' = e.ot
        /\ detalles' = e.detalles
        /\ last' = [op |-> "ver_checklist", raised |-> e.raised]
        /\ UNCHANGED <<historial, lecturas, alertas, plantillas, clock, otras>>

\* checklist_mantenimiento, "cargar_plantilla": after ensuring a checklist the
\* chosen template is applied
CargarPlantilla(pl, hoy) ==
    LET e == _ensure_checklist_exists(ot, detalles)
        r == aplicar_plantilla(World(e.ot, historial, lecturas, alertas), e.ot,
                               e.detalles, pl, items[pl], clock, hoy)
    IN  /\ IF e.raised
           THEN UNCHANGED <<ot, detalles, historial, lecturas, alertas>>
           ELSE Commit(r.W) /\ detalles' = r.detalles
        /\ last' = [op |-> "cargar_plantilla", plantilla |-> pl, raised |-> e.raised]
        /\ UNCHANGED <<plantillas, clock, otras>>

InitPl ==
    /\ \E tipo \in TipoOT : ot = NewOT("A1", tipo, "u1")
    /\ detalles = <<>>
    /\ historial = CreacionHistorial(PEN)
    /\ lecturas = EmptyTable
    /\ alertas = EmptyTable
    /\ plantillas = {}
    /\ clock = 1
    /\ last = [op |-> "create"]
    /\ ots = <<>>
    /\ items = [pl \in PlantillaIds |-> <<>>]
    /\ novedades = EmptyTable
    /\ ubicaciones = EmptyTable
    /\ taxonomia = EmptyTable
    /\ peticiones = EmptyTable

NextPl ==
    \/ \E pl \in PlantillaIds, tarea \in Tareas, obligatorio \in BOOLEAN,
          requiere_evidencia \in BOOLEAN, orden \in {0, 10} :
          AgregarItem(pl, tarea, obligatorio, requiere_evidencia, orden)
    \/ VerChecklist
    \/ \E pl \in PlantillaIds, hoy \in Periodos : CargarPlantilla(pl, hoy)
    \/ GenerarChecklistBase
    \/ \E marcas \in [1..Len(detalles) -> BOOLEAN] : GuardarChecklist(marcas)
    \/ \E nuevo \in EstadoOT, hoy \in Periodos : CambiarEstadoOT(nuevo, "u1", hoy)

SpecPl == InitPl /\ [][NextPl]_vars

-----------------------------------------------------------------------------
(* activos/models.py: Ubicacion *)

\* the Ubicacion rows; the nombre of a row is its id
Nodos == {"A", "B", "C"}

NewUbicacion(nombre, padre) == [nombre |-> nombre, padre |-> padre]

\* Ubicacion.__str__ on table U with `frames` nested calls left: the names
\* from the outermost ancestor down to u (joined with " / "), or
\* RecursionError when the calls run out
RECURSIVE Ubicacion__str__(_, _, _)
Ubicacion__str__(U, u, frames) ==
    IF frames = 0 THEN [raised |-> TRUE, text |-> <<>>]
    ELSE IF U[u].padre = NullRef THEN [raised |-> FALSE, text |-> <<U[u].nombre>>]
    ELSE LET p == Ubicacion__str__(U, U[u].padre, frames - 1)
         IN  IF p.raised THEN p
             ELSE [raised |-> FALSE, text |-> Append(p.text, U[u].nombre)]

\* Ubicacion.objects.create(nombre=, padre=): the parent is an existing row
CrearUbicacion(nombre, padre) ==
    /\ nombre \notin DOMAIN ubicaciones
    /\ padre \in DOMAIN ubicaciones \cup {NullRef}
    /\ ubicaciones' = (nombre :> NewUbicacion(nombre, padre)) @@ ubicaciones
    /\ last' = [op |-> "crear_ubicacion"]
    /\ UNCHANGED <<ot, detalles, historial, lecturas, alertas, plantillas, clock,
                   ots, items, novedades, taxonomia, peticiones>>

\* u.padre = padre; u.save()
CambiarPadre(u, padre) ==
    /\ u \in DOMAIN ubicaciones
    /\ padre \in DOMAIN ubicaciones \cup {NullRef}
    /\ ubicaciones' = [ubicaciones EXCEPT ![u] = [@ EXCEPT !.padre = padre]]
    /\ last' = [op |-> "cambiar_padre"]
    /\ UNCHANGED <<ot, detalles, historial, lecturas, alertas, plantillas, clock,
                   ots, items, novedades, taxonomia, peticiones>>

\* str(u)
StrUbicacion(u) ==
    LET r == Ubicacion__str__(ubicaciones, u, MaxRecursion)
    IN  /\ u \in DOMAIN ubicaciones
        /\ last' = [op |-> "str", u |-> u, raised |-> r.raised, text |-> r.text]
        /\ UNCHANGED <<ot, detalles, historial, lecturas, alertas, plantillas, clock, otras>>

InitUbi ==
    /\ ot = OTEnRevision(COR, <<None, None>>)
    /\ detalles = Checklist(1, 1)
    /\ historial = HistorialEnRevision
    /\ lecturas = EmptyTable
    /\ alertas = EmptyTable
    /\ plantillas = {}
    /\ clock = 1
    /\ last = [op |-> "init"]
    /\ OtrasVacias

NextUbi ==
    \/ \E nombre \in Nodos, padre \in Nodos \cup {NullRef} : CrearUbicacion(nombre, padre)
    \/ \E u \in Nodos, padre \in Nodos : CambiarPadre(u, padre)
    \/ \E u \in Nodos : StrUbicacion(u)

SpecUbi == InitUbi /\ [][NextUbi]_vars

-----------------------------------------------------------------------------
(* activos/services.py: escalar_novedad *)

\* settings.NOVEDAD_FALLAS_CRITICAS
NOVEDAD_FALLAS_CRITICAS == {"CRIT"}

\* the falla codes of a Novedad
FallasNovedad == {"CRIT", "F1", NullRef}

NovedadIds == {1, 2}

NewNovedad(activo, falla) ==
    [activo |-> activo, falla |-> falla, orden_mantenimiento |-> None]

escalar_novedad_sin_retorno(nov, O, force) ==
    IF ~force /\ ~(nov.falla # NullRef /\ nov.falla \in NOVEDAD_FALLAS_CRITICAS)
    THEN [novedad |-> nov, ots |-> O, ret |-> None]
    ELSE LET row == [falla |-> nov.falla] @@ NewOT(nov.activo, COR, NullUser)
             O1 == Append(O, OTCreada(row))
         IN  [novedad |-> [nov EXCEPT !.orden_mantenimiento = Len(O1)],
              ots |-> O1, ret |-> Len(O1)]

\* escalar_novedad(novedad, force) on the OT table O: the novedad as saved,
\* the OT table and the id of the returned OT (None when there is none)
escalar_novedad(nov, O, force) ==
    IF nov.orden_mantenimiento # None
    THEN [novedad |-> nov, ots |-> O, ret |-> nov.orden_mantenimiento]
    ELSE IF ~force /\ ~(nov.falla # NullRef /\ nov.falla \in NOVEDAD_FALLAS_CRITICAS)
    THEN [novedad |-> nov, ots |-> O, ret |-> None]
    ELSE LET row == [falla |-> nov.falla] @@ NewOT(nov.activo, COR, NullUser)
             O1 == Append(O, OTCreada(row))
         IN  [novedad |-> [nov EXCEPT !.orden_mantenimiento = Len(O1)],
              ots |-> O1, ret |-> Len(O1)]

\* Novedad.objects.create(activo=, falla=)
CrearNovedad(id, falla) ==
    /\ id \notin DOMAIN novedades
    /\ novedades' = (id :> NewNovedad("A1", falla)) @@ novedades
    /\ last' = [op |-> "crear_novedad", id |-> id]
    /\ UNCHANGED <<ot, detalles, historial, lecturas, alertas, plantillas, clock,
                   ots, items, ubicaciones, taxonomia, peticiones>>

\* a caller loads the novedad and calls escalar_novedad(novedad, force)
EscalarNovedad(id, force) ==
    /\ id \in DOMAIN novedades
    /\ LET r == escalar_novedad(novedades[id], ots, force)
       IN  /\ Len(r.ots) <= MaxOTs
           /\ novedades' = [novedades EXCEPT ![id] = r.novedad]
           /\ ots' = r.ots
           /\ last' = [op |-> "escalar_novedad", id |-> id, force |-> force,
                       ret |-> r.ret]
    /\ UNCHANGED <<ot, detalles, historial, lecturas, alertas, plantillas, clock,
                   items, ubicaciones, taxonomia, peticiones>>

NextNov ==
    \/ \E id \in NovedadIds, falla \in FallasNovedad : CrearNovedad(id, falla)
    \/ \E id \in NovedadIds, force \in BOOLEAN : EscalarNovedad(id, force)

SpecNov == InitUbi /\ [][NextNov]_vars

-----------------------------------------------------------------------------
(* activos/importers.py: TaxonomiaImporter *)

\* the levels Sistema, Subsistema, ItemMantenible, Parte.  taxonomia maps
\* <<nivel, tag>> to [padre, nombre, codigo]; padre is the asset of a
\* Sistema and the tag of the parent row below it
Niveles == 1..4

NewTaxon(padre, nombre, codigo) == [padre |-> padre, nombre |-> nombre, codigo |-> codigo]

TaxonomiaImportSummary == [creados |-> 0, actualizados |-> 0, errores |-> 0]

_update_model_sin_filtro(instance, nombre, codigo) ==
    LET i1 == [instance EXCEPT !.nombre = nombre, !.codigo = codigo]
    IN  [instance |-> i1, changed |-> i1 # instance]

\* _update_model(instance, {"nombre": nombre, "codigo": codigo}): blank values
\* are skipped, differing ones are set and saved
_update_model(instance, nombre, codigo) ==
    LET i1 == [instance EXCEPT
                 !.nombre = IF nombre # "" /\ @ # nombre THEN nombre ELSE @,
                 !.codigo = IF codigo # "" /\ @ # codigo THEN codigo ELSE @]
    IN  [instance |-> i1, changed |-> i1 # instance]

\* the result of one _ensure_* call
Ensured(st, obj, error) == [st |-> st, obj |-> obj, error |-> error]

\* the common body of _ensure_sistema / _ensure_subsistema / _ensure_item /
\* _ensure_parte for level n, cells d and parent padre (the asset for a
\* Sistema, NullRef when the parent level returned None)
EnsureNivel(st, n, d, padre) ==
    LET key == <<n, d.tag>>
        cached == key \in st.caches
        exists == key \in DOMAIN st.db
        u == _update_model(st.db[key], d.nombre, d.codigo)
        updated == [st EXCEPT !.db = [@ EXCEPT ![key] = u.instance],
                              !.summary.actualizados = @ + (IF u.changed THEN 1 ELSE 0),
                              !.caches = @ \cup {key}]
        created == [st EXCEPT !.db = (key :> NewTaxon(padre, d.nombre, d.codigo)) @@ @,
                              !.summary.creados = @ + 1,
                              !.caches = @ \cup {key}]
    IN  IF d.tag = "" /\ d.nombre = "" /\ d.codigo = ""
        THEN Ensured(st, NullRef, n = 1)
        ELSE IF n > 2 /\ padre = NullRef THEN Ensured(st, NullRef, TRUE)
        ELSE IF d.tag = "" THEN Ensured(st, NullRef, TRUE)
        ELSE IF cached /\ n = 1 THEN Ensured(updated, d.tag, FALSE)
        ELSE IF cached \/ exists
        THEN IF st.db[key].padre # padre THEN Ensured(st, NullRef, TRUE)
             ELSE Ensured(updated, d.tag, FALSE)
        ELSE Ensured(created, d.tag, FALSE)

_ensure_sistema(st, data, activo) == EnsureNivel(st, 1, data[1], activo)

_ensure_subsistema(st, data, sistema) == EnsureNivel(st, 2, data[2], sistema)

_ensure_item(st, data, subsistema) == EnsureNivel(st, 3, data[3], subsistema)

_ensure_parte(st, data, item) == EnsureNivel(st, 4, data[4], item)

\* _import_row inside the try of importar: a TaxonomiaRowError ends the row,
\* keeps what the row has written and is recorded in summary.errores
_import_row(st, data, activo) ==
    LET Fallo(e) == [e.st EXCEPT !.summary.errores = @ + 1]
        s1 == _ensure_sistema(st, data, activo)
        s2 == _ensure_subsistema(s1.st, data, s1.obj)
        s3 == _ensure_item(s2.st, data, s2.obj)
        s4 == _ensure_parte(s3.st, data, s3.obj)
    IN  IF s1.error THEN Fallo(s1)
        ELSE IF s2.error THEN Fallo(s2)
        ELSE IF s3.error THEN Fallo(s3)
        ELSE IF s4.error THEN Fallo(s4)
        ELSE s4.st

\* self.activo.sistemas.all().delete(): the asset's Sistema rows and, by
\* cascade, everything below them
BorrarSistemas(db, activo) ==
    LET s1 == {k \in DOMAIN db : k[1] = 1 /\ db[k].padre = activo}
        Hijos(n, P) == {k \in DOMAIN db : k[1] = n /\ <<n - 1, db[k].padre>> \in P}
        s2 == Hijos(2, s1)
        s3 == Hijos(3, s2)
        s4 == Hijos(4, s3)
        quedan == DOMAIN db \ (s1 \cup s2 \cup s3 \cup s4)
    IN  [k \in quedan |-> db[k]]

\* one cell group of a row: tag, nombre and codigo of one level
Celdas(tag, nombre, codigo) == [tag |-> tag, nombre |-> nombre, codigo |-> codigo]

CeldasVacias == Celdas("", "", "")

\* _extract_row_data: a row with every cell blank is skipped by importar
FilaVacia(data) == \A n \in Niveles : data[n] = CeldasVacias

RECURSIVE ImportarFilasTax(_, _, _, _)
ImportarFilasTax(st, filas, i, activo) ==
    IF i > Len(filas) THEN st
    ELSE ImportarFilasTax(IF FilaVacia(filas[i]) THEN st
                          ELSE _import_row(st, filas[i], activo),
                          filas, i + 1, activo)

\* TaxonomiaImporter(activo, archivo, limpiar).importar(): a file without the
\* header row raises before anything is written; otherwise the optional
\* deletion and every row run in one transaction.atomic() block, which
\* commits because row errors are caught inside it
importar(db, activo, archivo, limpiar) ==
    IF ~archivo.encabezados
    THEN [raised |-> TRUE, db |-> db, summary |-> TaxonomiaImportSummary]
    ELSE LET db0 == IF limpiar THEN BorrarSistemas(db, activo) ELSE db
             st == ImportarFilasTax([db |-> db0, caches |-> {}, summary |-> TaxonomiaImportSummary],
                                    archivo.filas, 1, activo)
         IN  [raised |-> FALSE, db |-> st.db, summary |-> st.summary]

\* the cells the imported files are drawn from
CeldasSistema ==
    {Celdas("", "", ""), Celdas("", "n1", ""), Celdas("S1", "", ""),
     Celdas("S1", "n1", ""), Celdas("S1", "n2", ""), Celdas("S2", "", "")}

Fila(s, ss, it, pa) ==
    (1 :> s) @@ (2 :> Celdas(ss, "", "")) @@ (3 :> Celdas(it, "", ""))
    @@ (4 :> IF pa = "" THEN CeldasVacias ELSE Celdas(pa, "", "c1"))

FilasTaxonomia ==
    {Fila(s, f[1], f[2], f[3]) :
        s \in CeldasSistema,
        f \in {<<"", "", "">>, <<"SS1", "", "">>, <<"SS1", "I1", "">>,
               <<"SS1", "I1", "P1">>, <<"", "I1", "">>, <<"SS1", "", "P1">>}}

RECURSIVE SeqsHasta(_, _)
SeqsHasta(S, n) ==
    IF n = 0 THEN {<<>>}
    ELSE LET menores == SeqsHasta(S, n - 1)
         IN  menores \cup {Append(q, x) : q \in menores, x \in S}

ArchivosTaxonomia ==
    {[encabezados |-> FALSE, filas |-> <<>>]}
    \cup {[encabezados |-> TRUE, filas |-> f] : f \in SeqsHasta(FilasTaxonomia, MaxFilasTax)}

\* hierarchies stored by earlier imports: none, one of asset A1, and a
\* Sistema of another asset
TaxonomiaPrevia ==
    (<<1, "S1">> :> NewTaxon("A1", "n1", "")) @@ (<<2, "SS1">> :> NewTaxon("S1", "sub", ""))
    @@ (<<3, "I1">> :> NewTaxon("SS1", "item", "")) @@ (<<4, "P1">> :> NewTaxon("I1", "", "c0"))

TaxonomiaAjena == (<<1, "S2">> :> NewTaxon("A2", "n1", ""))

\* one upload of the taxonomy form for asset A1; a behaviour imports one
\* file, up to MaxVeces times
ImportarTaxonomia(archivo, limpiar) ==
    /\ \/ last.op = "init"
       \/ /\ last.op = "importar_taxonomia"
          /\ archivo = last.archivo /\ limpiar = last.limpiar
          /\ last.veces < MaxVeces
    /\ LET r == importar(taxonomia, "A1", archivo, limpiar)
       IN  /\ taxonomia' = r.db
           /\ last' = [op |-> "importar_taxonomia", archivo |-> archivo, limpiar |-> limpiar,
                       veces |-> IF last.op = "init" THEN 1 ELSE last.veces + 1,
                       raised |-> r.raised, creados |-> r.summary.creados,
                       actualizados |-> r.summary.actualizados,
                       errores |-> r.summary.errores]
    /\ UNCHANGED <<ot, detalles, historial, lecturas, alertas, plantillas, clock,
                   ots, items, novedades, ubicaciones, peticiones>>

InitTax ==
    /\ ot = OTEnRevision(COR, <<None, None>>)
    /\ detalles = Checklist(1, 1)
    /\ historial = HistorialEnRevision
    /\ lecturas = EmptyTable
    /\ alertas = EmptyTable
    /\ plantillas = {}
    /\ clock = 1
    /\ last = [op |-> "init"]
    /\ ots = <<>>
    /\ items = EmptyTable
    /\ novedades = EmptyTable
    /\ ubicaciones = EmptyTable
    /\ taxonomia \in {EmptyTable, TaxonomiaPrevia, TaxonomiaAjena}
    /\ peticiones = EmptyTable

NextTax == \E archivo \in ArchivosTaxonomia, limpiar \in BOOLEAN : ImportarTaxonomia(archivo, limpiar)

SpecTax == InitTax /\ [][NextTax]_vars

-----------------------------------------------------------------------------
(* Claims on the template lookup *)

\* the vigente templates of tipo t in each scope of activo a
EnAmbito(a, t, ambito) ==
    {p \in plantillas :
        /\ p.vigente
        /\ p.tipo = t
        /\ CASE ambito = "activo" -> p.activo = a
             [] ambito = "familia" -> FamiliaDe[a] # NullRef /\ p.familia = FamiliaDe[a]
             [] ambito = "global" -> p.es_global}

PrimerAmbito(a, t) ==
    IF EnAmbito(a, t, "activo") # {} THEN EnAmbito(a, t, "activo")
    ELSE IF EnAmbito(a, t, "familia") # {} THEN EnAmbito(a, t, "familia")
    ELSE EnAmbito(a, t, "global")

\* C5: get_best_template_for(activo, tipo) without a falla returns a template
\* of highest version among the vigente templates of that tipo in the first
\* non-empty scope in the order activo, familia of the activo, global; it
\* returns None exactly when the three scopes are empty.
C5_BestTemplate ==
    last.op = "get_best_template_for" /\ last.falla = NullRef =>
        LET S == PrimerAmbito(last.activo, last.tipo)
        IN  /\ last.found <=> S # {}
            /\ last.found =>
                  /\ last.result \in S
                  /\ \A q \in S : q.version <= last.result.version

\* a family template has been returned although a global template of the
\* same tipo with a higher version is vigente
C5_Witness ==
    /\ last.op = "get_best_template_for"
    /\ last.falla = NullRef
    /\ last.found
    /\ last.result.activo # last.activo
    /\ last.result.familia = FamiliaDe[last.activo]
    /\ ~last.result.es_global
    /\ \E g \in EnAmbito(last.activo, last.tipo, "global") :
          g.version > last.result.version

-----------------------------------------------------------------------------
(* Claims on the alert synchronisation *)

\* the step is a call sync_alert_for_reading on the stored reading last'.key
SyncStep == last'.op = "sync_alert_for_reading"

\* no reading of the same asset has a later (anio, semana) than the one of key k
EsUltima(L, k) ==
    \A j \in DOMAIN L : j[1] = k[1] => ~Later(<<j[2], j[3]>>, <<k[2], k[3]>>)

Abierta(alerta) == alerta.estado \in {"NUEVA", "EN_PROCESO"}

DeltaPrev(k) == _delta_prev(lecturas[k])

\* C6: after sync_alert_for_reading on the latest reading of an asset with
\* DeltaPrev >= 70000 the asset has an open alert (NUEVA or EN_PROCESO) for
\* the week of that reading, whatever syncs and manual changes came before.
C6_OpenAtThreshold ==
    [][SyncStep /\ EsUltima(lecturas, last'.key)
         /\ DeltaPrev(last'.key) # None /\ DeltaPrev(last'.key) >= ALERTA_UMBRAL
       => /\ last'.key \in DOMAIN alertas'
          /\ Abierta(alertas'[last'.key])]_vars

\* C7: after sync_alert_for_reading on the latest reading of an asset with
\* 0 <= DeltaPrev < 70000 the asset has no alert in NUEVA or EN_PROCESO,
\* whatever syncs and manual changes came before.
C7_NoneOpenBelowThreshold ==
    [][SyncStep /\ EsUltima(lecturas, last'.key)
         /\ DeltaPrev(last'.key) # None
         /\ DeltaPrev(last'.key) >= 0 /\ DeltaPrev(last'.key) < ALERTA_UMBRAL
       => \A j \in DOMAIN alertas' :
             j[1] = last'.key[1] => ~Abierta(alertas'[j])]_vars

\* C8: sync_alert_for_reading (only_latest at its default) on a reading for
\* which the asset has a reading of a later week leaves the alert table
\* unchanged and returns skipped with reason 'no_es_ultima_semana'.
C8_OldReadingIgnored ==
    [][SyncStep /\ ~EsUltima(lecturas, last'.key)
       => /\ alertas' = alertas
          /\ last'.sr = Skipped("no_es_ultima_semana")]_vars

\* a sync has run on a reading that is not the latest, is at the threshold
\* and has no alert of its week
C8_Witness ==
    /\ last.op = "sync_alert_for_reading"
    /\ ~EsUltima(lecturas, last.key)
    /\ DeltaPrev(last.key) = ALERTA_UMBRAL
    /\ last.key \notin DOMAIN alertas

\* C9: closing a preventive OT closes no alert: every alert of the asset
\* that was NUEVA or EN_PROCESO before the closure is still NUEVA or
\* EN_PROCESO after the closure, its signals and its on-commit handlers.
C9_ClosureKeepsAlertsOpen ==
    [][last'.op = "transition_to" /\ ot.estado # CER /\ ot'.estado = CER
         /\ ot'.tipo = PRE
       => \A k \in DOMAIN alertas :
             k[1] = ot.activo /\ Abierta(alertas[k])
                => k \in DOMAIN alertas' /\ Abierta(alertas'[k])]_vars

\* C10: importar_excel with dry_run = False and generar_alertas = False
\* leaves the alert table as it was, on-commit handlers included.
C10_ImportWithoutAlerts ==
    [][last'.op = "importar_excel" /\ ~last'.dry_run /\ ~last'.generar_alertas
       => alertas' = alertas]_vars

-----------------------------------------------------------------------------
(* Claims on the import *)

\* C11: importar_excel with dry_run = True leaves the database unchanged:
\* no reading is created or updated and no alert is created, updated or
\* closed, whatever the rows of the file.
C11_DryRunChangesNothing ==
    [][last'.op = "importar_excel" /\ last'.dry_run
       => lecturas' = lecturas /\ alertas' = alertas]_vars

\* a dry run has processed a row at the threshold, with alerts requested,
\* for an asset and week that have no reading
C11_Witness ==
    /\ last.op = "importar_excel"
    /\ last.dry_run
    /\ last.generar_alertas
    /\ \E i \in 1..Len(last.filas) :
          LET f == last.filas[i]
          IN  /\ f.lectura # None
              /\ f.delta_prev = ALERTA_UMBRAL
              /\ ActivoPorCodigo(f.codigo) # NullRef
              /\ <<f.codigo, f.anio, f.semana>> \notin DOMAIN lecturas

-----------------------------------------------------------------------------
(* Claims on the alert table *)

\* C12: in every state reachable by sync_alert_for_reading,
\* crear_ot_desde_alerta and cambiar_estado_alerta an alert is abierta
\* exactly when it is not CERRADA, its estado being NUEVA, EN_PROCESO or
\* CERRADA, and every alert in CERRADA has cerrado_en set.
C12_AbiertaAndClosedStamp ==
    \A k \in DOMAIN alertas :
        /\ alertas[k].estado \in ESTADOS
        /\ abierta(alertas[k]) <=> alertas[k].estado # "CERRADA"
        /\ alertas[k].estado = "CERRADA" => alertas[k].cerrado_en # None

\* an alert closed by a sync (of a later week at the threshold) next to an
\* open alert, after an OT was requested from an alert
C12_Witness ==
    /\ last.op = "crear_ot_desde_alerta"
    /\ \E k \in DOMAIN alertas, j \in DOMAIN alertas :
          /\ alertas[k].estado = "CERRADA" /\ alertas[k].cerrado_en # None
          /\ abierta(alertas[j])

-----------------------------------------------------------------------------
(* Claims on Ubicacion *)

\* C13: str() of a Ubicacion terminates for every parent graph, cycles
\* included: it raises nothing, for a node that is its own parent it is the
\* node's name, and for a two-node cycle it is 'parent / node'.
C13_StrTerminates ==
    last.op = "str" =>
        LET u == last.u
            p == ubicaciones[u].padre
        IN  /\ ~last.raised
            /\ p = u => last.text = <<ubicaciones[u].nombre>>
            /\ (p # NullRef /\ p # u /\ ubicaciones[p].padre = u)
                  => last.text = <<ubicaciones[p].nombre, ubicaciones[u].nombre>>

-----------------------------------------------------------------------------
(* Claims on the escalation of novedades *)

Critica(nov) == nov.falla \in NOVEDAD_FALLAS_CRITICAS

Escaladas == {id \in DOMAIN novedades : novedades[id].orden_mantenimiento # None}

\* every escalated novedad points to an existing corrective OT of its asset,
\* no two point to the same OT and there is no OT beyond these
UnaOTPorNovedad ==
    /\ \A id \in Escaladas :
          LET o == novedades[id].orden_mantenimiento
          IN  /\ o \in 1..Len(ots)
              /\ ots[o].row.tipo = COR
              /\ ots[o].row.activo = novedades[id].activo
              /\ \A j \in Escaladas : novedades[j].orden_mantenimiento = o => j = id
    /\ Len(ots) = Cardinality(Escaladas)

\* the step is a call of escalar_novedad
EscalarStep == last'.op = "escalar_novedad"

-----------------------------------------------------------------------------
(* Claims on the taxonomy import *)

\* the step is one run of TaxonomiaImporter.importar
ImportStep == last'.op = "importar_taxonomia"

\* the step imports, without limpiar, the file the previous step imported
Reimportacion == ImportStep /\ last'.veces >= 2 /\ ~last'.limpiar

\* two rows give different non-blank nombre or codigo for the same tag
Conflictivo(filas) ==
    \E i, j \in 1..Len(filas), n \in Niveles :
        /\ filas[i][n].tag # "" /\ filas[i][n].tag = filas[j][n].tag
        /\ \/ /\ filas[i][n].nombre # "" /\ filas[j][n].nombre # ""
              /\ filas[i][n].nombre # filas[j][n].nombre
           \/ /\ filas[i][n].codigo # "" /\ filas[j][n].codigo # ""
              /\ filas[i][n].codigo # filas[j][n].codigo

\* the non-blank values the file gives for nombre and codigo of key k
NombresDe(filas, k) == {filas[i][k[1]].nombre : i \in {j \in 1..Len(filas) : filas[j][k[1]].tag = k[2]}} \ {""}

CodigosDe(filas, k) == {filas[i][k[1]].codigo : i \in {j \in 1..Len(filas) : filas[j][k[1]].tag = k[2]}} \ {""}

\* C15 as stated: importing the same file a second time creates nothing,
\* reports zero updates and leaves the hierarchy as the first import left
\* it, for every file.
C15_Idempotente ==
    [][Reimportacion => /\ last'.creados = 0
                        /\ last'.actualizados = 0
                        /\ taxonomia' = taxonomia]_vars

\* C15: without limpiar, the second import of a file creates nothing and
\* leaves every tag, codigo and nombre as the first import left it, and
\* it reports zero updates when no two rows of the file give different
\* non-blank nombre or codigo for the same tag; an import without limpiar
\* removes no row and changes a stored nombre or codigo only to a
\* non-blank cell of the file for that tag.
C15_ReimportarConserva ==
    [][/\ Reimportacion =>
            /\ last'.creados = 0
            /\ taxonomia' = taxonomia
            /\ ~Conflictivo(last'.archivo.filas) => last'.actualizados = 0
       /\ ImportStep /\ ~last'.limpiar =>
            \A k \in DOMAIN taxonomia :
                /\ k \in DOMAIN taxonomia'
                /\ taxonomia'[k].padre = taxonomia[k].padre
                /\ taxonomia'[k].nombre # taxonomia[k].nombre
                      => taxonomia'[k].nombre \in NombresDe(last'.archivo.filas, k)
                /\ taxonomia'[k].codigo # taxonomia[k].codigo
                      => taxonomia'[k].codigo \in CodigosDe(last'.archivo.filas, k)]_vars

\* a two-row file down to the Parte level has been imported twice over a
\* stored hierarchy: the second import reported nothing created, updated or
\* failed, the Parte carries the codigo of the file and the Subsistema, whose
\* nombre cell is blank in the file, keeps its stored nombre
C15_Witness ==
    /\ last.op = "importar_taxonomia"
    /\ last.veces = 2 /\ ~last.limpiar /\ ~last.raised
    /\ Len(last.archivo.filas) = 2
    /\ last.creados = 0 /\ last.actualizados = 0 /\ last.errores = 0
    /\ <<4, "P1">> \in DOMAIN taxonomia /\ taxonomia[<<4, "P1">>].codigo = "c1"
    /\ <<2, "SS1">> \in DOMAIN taxonomia /\ taxonomia[<<2, "SS1">>].nombre = "sub"
    /\ <<1, "S2">> \in DOMAIN taxonomia

\* C16: with limpiar set, an import that raises or records a row error
\* leaves every row of the previous hierarchy in place.
C16_LimpiarSoloSiExito ==
    [][ImportStep /\ last'.limpiar /\ (last'.raised \/ last'.errores > 0)
         => \A k \in DOMAIN taxonomia : k \in DOMAIN taxonomia']_vars

-----------------------------------------------------------------------------
(* Claims on the history and the stamps written by the signal handlers *)

\* the HistorialOT rows of the OT form a chain from the creation row to the
\* stored estado
Cadena ==
    /\ Len(historial) >= 1
    /\ historial[1].estado_anterior = ""
    /\ \A i \in 2..Len(historial) :
          historial[i].estado_anterior = historial[i - 1].estado_nuevo
    /\ historial[Len(historial)].estado_nuevo = ot.estado

\* C17: the history rows of the OT form a chain that starts at the creation
\* row, whose estado_nuevo is the estado at creation, and ends at the stored
\* estado, after any sequence of create, transition_to, cerrar, asignar_ot
\* and admin saves of estado; a step that leaves estado unchanged adds no
\* row and a change of estado adds exactly the row (old, new).
C17_HistorialEncadenado ==
    /\ [](Cadena /\ (last.op = "create" => historial = CreacionHistorial(ot.estado)))
    /\ [][IF ot'.estado = ot.estado
          THEN historial' = historial
          ELSE historial' = Append(historial, [estado_anterior |-> ot.estado,
                                               estado_nuevo |-> ot'.estado])]_vars

\* an OT created in PEN was started with transition_to and later closed by a
\* save of the admin form, with four rows of history
C17_Witness ==
    /\ last.op = "guardar_ot"
    /\ Len(historial) = 4
    /\ historial[2] = [estado_anterior |-> PEN, estado_nuevo |-> PRO]
    /\ ot.fecha_inicio_ejecucion # None
    /\ ot.asignado_a # NullUser
    /\ ot.estado = CER

Sello(o, estado) ==
    IF estado = PRO THEN o.fecha_inicio_ejecucion
    ELSE IF estado = REV THEN o.fecha_fin_ejecucion
    ELSE o.fecha_cierre

\* C18: a step that changes the stored estado to PRO, REV or CER leaves the
\* matching stamp set in the stored row; after a save of the admin form,
\* where only the signal handler writes stamps, the matching stamp is the
\* time of the save if it was unset and every stamp that was set is kept.
C18_SellosPorSenal ==
    [][ot'.estado # ot.estado /\ ot'.estado \in {PRO, REV, CER} =>
          /\ Sello(ot', ot'.estado) # None
          /\ last'.op = "guardar_ot" =>
                \A e \in {PRO, REV, CER} :
                    Sello(ot', e) = IF e = ot'.estado /\ Sello(ot, e) = None
                                    THEN clock ELSE Sello(ot, e)]_vars

\* an OT closed at time 1 was sent back to REV by a save of the admin form
\* at time 2: fecha_fin_ejecucion was stamped by the handler, fecha_cierre
\* kept its value and fecha_inicio_ejecucion stayed unset
C18_Witness ==
    /\ last.op = "guardar_ot"
    /\ ot.estado = REV
    /\ ot.fecha_fin_ejecucion = 2
    /\ ot.fecha_cierre = 1
    /\ ot.fecha_inicio_ejecucion = None

-----------------------------------------------------------------------------
(* Claims on checklists from templates *)

\* detalle d carries the fields of template item it and is not completed
CopiaDe(d, it) ==
    /\ d.tarea = it.tarea
    /\ d.obligatorio = it.obligatorio
    /\ d.requiere_evidencia = it.requiere_evidencia
    /\ d.orden = it.orden
    /\ ~d.completado

\* C19: after aplicar_plantilla the checklist has exactly one item per item
\* of the template, carrying its tarea, obligatorio, requiere_evidencia and
\* orden and not completed, nothing else remains, plantilla_aplicada is the
\* template, and estado, the stamps and the history are unchanged.
C19_AplicarPlantillaReemplaza ==
    [][last'.op = "cargar_plantilla" /\ ~last'.raised =>
          LET its == items[last'.plantilla]
          IN  /\ Len(detalles') = Len(its)
              /\ \A i \in 1..Len(its) :
                    Cardinality({j \in 1..Len(detalles') : CopiaDe(detalles'[j], its[i])}) = 1
              /\ ot'.plantilla_aplicada = last'.plantilla
              /\ ot' = [ot EXCEPT !.plantilla_aplicada = last'.plantilla]
              /\ historial' = historial]_vars

\* a template whose second item sorts first was applied to an OT in
\* progress: the checklist has the two items in template order, none
\* completed, and the OT kept its estado and stamp
C19_Witness ==
    /\ last.op = "cargar_plantilla" /\ ~last.raised
    /\ Len(items["PL1"]) = 2
    /\ items["PL1"][1].orden = 10 /\ items["PL1"][2].orden = 0
    /\ items["PL1"][2].obligatorio /\ items["PL1"][2].requiere_evidencia
    /\ Len(detalles) = 2
    /\ CopiaDe(detalles[1], items["PL1"][2])
    /\ CopiaDe(detalles[2], items["PL1"][1])
    /\ ot.plantilla_aplicada = "PL1"
    /\ ot.estado = PRO /\ ot.fecha_inicio_ejecucion # None

\* C20: after _ensure_checklist_exists the OT has at least one checklist
\* item, and an OT that already had items keeps them unchanged.
C20_ChecklistGarantizado ==
    [][last'.op = "ver_checklist" =>
          /\ ~last'.raised
          /\ Len(detalles') >= 1
          /\ Len(detalles) >= 1 => detalles' = detalles]_vars

-----------------------------------------------------------------------------
(* Claims on the baseline fixed by a closure *)

\* the step closes the OT: a transition_to(CER) that succeeded from REV
CierreStep == TransitionStep(CER) /\ ~last'.raised /\ ot.estado = REV

\* reading k has its baseline fixed and its delta reset, nothing else changed
BaselineFijado(k) ==
    /\ lecturas'[k].ciclo_ultimo_preventivo # None
    /\ lecturas'[k] = [lecturas[k] EXCEPT
                          !.ciclo_ultimo_preventivo = lecturas'[k].ciclo_ultimo_preventivo,
                          !.ciclos_desde_ultimo_preventivo = 0]

\* the readings the closure may pick: the one of the execution week if it
\* exists, else the latest; without an execution week, one of the asset
LecturasObjetivo ==
    LET K == KeysOf(lecturas, ot.activo)
        wk == <<ot.activo, ot.anio_ejecucion, ot.semana_ejecucion>>
    IN  IF ot.anio_ejecucion = None THEN K
        ELSE IF wk \in K THEN {wk} ELSE {LastKey(K)}

\* C21: closing a corrective OT changes no reading; closing a preventive OT
\* of an asset with readings changes exactly one of them, the one of the
\* execution week if it exists and otherwise the latest, fixing its
\* ciclo_ultimo_preventivo and setting ciclos_desde_ultimo_preventivo to 0;
\* with no reading of the asset nothing changes and nothing is raised.
C21_SoloCierrePreventivo ==
    [][CierreStep =>
          IF ot.tipo # PRE \/ KeysOf(lecturas, ot.activo) = {}
          THEN lecturas' = lecturas
          ELSE /\ DOMAIN lecturas' = DOMAIN lecturas
               /\ \E k \in LecturasObjetivo :
                     /\ BaselineFijado(k)
                     /\ \A j \in DOMAIN lecturas \ {k} : lecturas'[j] = lecturas[j]]_vars

-----------------------------------------------------------------------------
(* Claims on alerts that already exist *)

\* C22: a sync of the latest reading at or above the threshold whose week
\* already has an alert keeps the estado of that alert and updates its
\* valor_ciclos and umbral; no sync, alone or inside an import, takes an
\* alert out of CERRADA.
C22_NuncaReabre ==
    [][/\ SyncStep /\ last'.key \in DOMAIN alertas /\ EsUltima(lecturas, last'.key)
            /\ DeltaPrev(last'.key) # None /\ DeltaPrev(last'.key) >= ALERTA_UMBRAL
          => /\ last'.sr.updated
             /\ alertas'[last'.key].estado = alertas[last'.key].estado
             /\ alertas'[last'.key].valor_ciclos = DeltaPrev(last'.key)
             /\ alertas'[last'.key].umbral = ALERTA_UMBRAL
       /\ last'.op \in {"sync_alert_for_reading", "importar_excel"}
          => \A k \in DOMAIN alertas :
                alertas[k].estado = "CERRADA"
                   => k \in DOMAIN alertas' /\ alertas'[k].estado = "CERRADA"]_vars

\* a sync has updated the alert of its week, which was CERRADA and stays
\* CERRADA with the value of the reading, after the alert of an earlier
\* week was closed
C22_Witness ==
    /\ last.op = "sync_alert_for_reading"
    /\ last.sr.updated
    /\ alertas[last.key].estado = "CERRADA"
    /\ alertas[last.key].cerrado_en # None
    /\ alertas[last.key].valor_ciclos = ALERTA_UMBRAL + 10000
    /\ \E j \in DOMAIN alertas : j # last.key /\ alertas[j].estado = "CERRADA"

\* C23: crear_ot_desde_alerta returns normally having created one preventive
\* OT in PEN for the asset of the alert, and leaves the alert in EN_PROCESO
\* whatever its estado was before.
C23_OTDesdeAlerta ==
    [][last'.op = "crear_ot_desde_alerta" =>
          /\ ~last'.raised
          /\ Len(ots') = Len(ots) + 1
          /\ ots'[Len(ots')].row.tipo = PRE
          /\ ots'[Len(ots')].row.estado = PEN
          /\ ots'[Len(ots')].row.activo = last'.key[1]
          /\ alertas'[last'.key].estado = "EN_PROCESO"]_vars

-----------------------------------------------------------------------------
(* Claims on the scope of the template lookup *)

\* C24: the template get_best_template_for returns for an asset, with or
\* without a falla, is scoped to that asset, scoped to the family of the
\* asset, or global.
C24_DentroDelAmbito ==
    last.op = "get_best_template_for" /\ last.found =>
        \/ last.result.activo = last.activo
        \/ FamiliaDe[last.activo] # NullRef /\ last.result.familia = FamiliaDe[last.activo]
        \/ last.result.es_global

-----------------------------------------------------------------------------
(* Claims on overlapping requests *)

\* the position of an estado in the order PEN < PRO < REV < CER
Rango(estado) ==
    CASE estado = PEN -> 0 [] estado = PRO -> 1 [] estado = REV -> 2 [] estado = CER -> 3

\* C25: the stored estado of the OT never moves backward in the order
\* PEN < PRO < REV < CER, also when requests that loaded the OT earlier
\* call transition_to after other requests have moved it on.
C25_NuncaRetrocede ==
    [][Rango(ot'.estado) >= Rango(ot.estado)]_vars

====
